---- MODULE Spec2Model ----
(***************************************************************************)
(* Model of src/app.py ("Cargar Gastos"): one Streamlit session entering   *)
(* expenses through a psycopg2 connection pool.                            *)
(*                                                                         *)
(* The script of app.py is re-executed from the top on every user event.   *)
(* The variable pc is the position of the session's script thread; the     *)
(* storage functions that go through pooled_conn() are executed in small   *)
(* steps (variable call) so that the server may drop a connection between  *)
(* any two of them.                                                        *)
(***************************************************************************)
EXTENDS Integers, Sequences, FiniteSets, TLC

----------------------------------------------------------------------------
(* Bounds of the model *)

\* largest amount typed, in half cents (0.005)
MaxMonto == 3

\* the step of the clock, in seconds
TickSeconds == 30

(* Program constants *)

\* pool.SimpleConnectionPool(1, 8, ...): minconn, maxconn
MinConn == 1
PoolMax == 8

\* st.cache_data(ttl=60): seconds an entry of cargar_obras is served
Ttl == 60

----------------------------------------------------------------------------
VARIABLES
    DATABASE_URL,         \* TRUE iff the connection string is configured
    hasDialog,            \* hasattr(st, "dialog")
    pool_created,         \* get_pool() has built (and cached) the pool
    idle,                 \* pool._pool : connections waiting in the pool
    used,                 \* pool._used : connections lent out
    health,               \* per connection: "none", "ok", "dead", "closed"
    call,                 \* the pooled_conn() call in progress (or the last one)
    db_connected,         \* st.session_state.db_connected
    db_error,             \* st.session_state.db_error  (message kind)
    db_checked_once,      \* st.session_state.db_checked_once
    enviando,             \* st.session_state.enviando
    datos_gasto,          \* st.session_state.datos_gasto
    mostrar_confirmacion, \* st.session_state.mostrar_confirmacion
    flash_ok,             \* st.session_state.flash_ok is set
    cache,                \* st.cache_data entry of cargar_obras, with its age
    lista_obras,          \* lista_obras of the current run
    pc,                   \* position of the script thread
    ev,                   \* the widget that triggered the current run
    form,                 \* values returned by the form widgets in this run
    errores,              \* st.error messages of the last validation
    ok,                   \* result of the last insertar_gasto call
    confirmShown,         \* confirm button as last rendered: "no", "enabled", "disabled"
    insArgs,              \* arguments of the insertar_gasto call being run
    insCalls              \* insertar_gasto calls started since enviando was set

poolVars == <<pool_created, idle, used, health>>
sessVars == <<db_connected, db_error, db_checked_once, enviando, datos_gasto,
              mostrar_confirmacion, flash_ok>>
runVars  == <<pc, ev, form, errores, ok, confirmShown, lista_obras>>
vars == <<DATABASE_URL, hasDialog, poolVars, call, sessVars, cache, runVars,
          insArgs, insCalls>>

\* what a step of pooled_conn / of test_connection leaves alone
PooledFrame == UNCHANGED <<DATABASE_URL, hasDialog, sessVars, cache, runVars,
                           insArgs, insCalls>>
TestFrame == UNCHANGED <<DATABASE_URL, hasDialog, db_checked_once, enviando,
                         datos_gasto, mostrar_confirmacion, flash_ok, cache,
                         runVars, insArgs, insCalls>>

----------------------------------------------------------------------------
(* Connections and the pool (psycopg2.pool.SimpleConnectionPool as used by *)
(* get_pool, pooled_conn and test_connection)                              *)

\* Names of the connection objects a call can refer to: the connection it
\* holds and the one it has discarded.
ConnIds == {1, 2}
NoConn == 0

\* The connection a getconn() that has to open a new one would create: an
\* object that is neither in the pool nor referenced by the running call.
FreeIds == {c \in ConnIds : c \notin idle /\ c \notin used
                            /\ c # call.conn /\ c # call.first}

\* p.getconn(): the connections it may return.  It pops an idle connection
\* when there is one, otherwise it opens a new one unless maxconn are lent.
GetConnResults ==
    IF idle # {} THEN idle
    ELSE IF Cardinality(used) >= PoolMax \/ FreeIds = {} THEN {}
    ELSE {CHOOSE c \in FreeIds : \A d \in FreeIds : c <= d}

\* p.getconn() may raise: pool exhausted, or the new connection cannot be
\* opened (server unreachable).
GetConnMayRaise == idle = {}

HealthAfterGet(c) == IF c \in idle THEN health ELSE [health EXCEPT ![c] = "ok"]

\* p.putconn(conn, close): the outcomes the pool can produce.
\*   "raise"   : PoolError (unkeyed connection) or rollback() failed
\*   "close"   : conn.close(), connection forgotten
\*   "discard" : connection already closed, forgotten
\*   "recycle" : connection appended to the idle list
PutConnOutcomes(c, close) ==
    IF c \notin used THEN {"raise"}
    ELSE IF close \/ Cardinality(idle) >= MinConn THEN {"close"}
    ELSE IF health[c] = "closed" THEN {"discard"}
    ELSE IF health[c] = "ok" THEN {"recycle"}
    ELSE {"close", "raise", "recycle"}

UsedAfterPut(c, o) == IF o = "raise" THEN used ELSE used \ {c}
IdleAfterPut(c, o) == IF o = "recycle" THEN idle \cup {c} ELSE idle
\* a connection the pool has closed or forgotten is no longer an object of
\* the model
HealthAfterPut(c, o) ==
    IF o \in {"close", "discard"} THEN [health EXCEPT ![c] = "none"] ELSE health

\* _ping(conn): SELECT 1 answers iff the connection is alive.
ping(c) == health[c] = "ok"

\* conn.closed or not _ping(conn)
ProbeFails(c) == health[c] \in {"closed", "none"} \/ ~ping(c)

\* A failed SELECT 1 may leave the connection object open or mark it closed.
HealthAfterPing(c) ==
    IF health[c] = "dead" THEN {health, [health EXCEPT ![c] = "closed"]}
    ELSE {health}

\* variant: get_pool() builds the pool without looking at the DSN
MutGetPoolNever == FALSE

\* get_pool(): raises without a connection string, otherwise the cached pool.
\* Building the pool opens MinConn connections.
GetPoolRaises == ~DATABASE_URL

----------------------------------------------------------------------------
(* The storage call in progress.  op is the function that runs            *)
(* ("test" = test_connection, "obras" = cargar_obras, "insert" =          *)
(* insertar_gasto), ppc its position.  The other fields record what the   *)
(* call did: they are reset when the next call starts.                    *)

NewCall(o) ==
    [op |-> o, ppc |-> "getpool",
     conn |-> NoConn,      \* the local variable conn
     first |-> NoConn,     \* the first connection borrowed
     borrowed |-> {},      \* connections obtained from getconn()
     gets |-> 0,           \* getconn() calls
     probes |-> 0,         \* liveness probes
     passed |-> {},        \* connections that passed the probe
     puts |-> <<>>,        \* putconn() calls: [c, close, out]
     entered |-> NoConn,   \* connection yielded to the caller's block
     raised |-> FALSE,     \* an exception left the function body
     result |-> FALSE]     \* value returned by op

NoCall == [NewCall("none") EXCEPT !.ppc = "off"]

PutRec(c, close, o) == [c |-> c, close |-> close, out |-> o]

\* p = get_pool() at the head of pooled_conn and test_connection: moves the
\* call to ppc okPpc, or to errPpc with the exception raised.
GetPool(okPpc, errPpc) ==
    \/ /\ GetPoolRaises
       /\ call' = [call EXCEPT !.ppc = errPpc, !.raised = TRUE]
       /\ UNCHANGED poolVars
    \/ /\ ~GetPoolRaises /\ pool_created
       /\ call' = [call EXCEPT !.ppc = okPpc]
       /\ UNCHANGED poolVars
    \/ /\ ~GetPoolRaises /\ ~pool_created
       /\ \/ /\ pool_created' = TRUE
             /\ idle' = {1}
             /\ health' = [health EXCEPT ![1] = "ok"]
             /\ used' = used
             /\ call' = [call EXCEPT !.ppc = okPpc]
          \/ /\ call' = [call EXCEPT !.ppc = errPpc, !.raised = TRUE]
             /\ UNCHANGED poolVars

\* conn = p.getconn(): moves the call to okPpc with conn bound, or to errPpc
\* with the exception raised (conn keeps its previous value).
GetConn(okPpc, errPpc) ==
    \/ \E c \in GetConnResults :
          /\ health' = HealthAfterGet(c)
          /\ idle' = idle \ {c}
          /\ used' = used \cup {c}
          /\ call' = [call EXCEPT !.ppc = okPpc, !.conn = c,
                                  !.first = IF @ = NoConn THEN c ELSE @,
                                  !.borrowed = @ \cup {c},
                                  !.gets = @ + 1]
          /\ UNCHANGED pool_created
    \/ /\ GetConnMayRaise
       /\ call' = [call EXCEPT !.ppc = errPpc, !.raised = TRUE, !.gets = @ + 1]
       /\ UNCHANGED poolVars

\* p.putconn(c, close=close) with outcome o
PutConn(c, close, o) ==
    /\ o \in PutConnOutcomes(c, close)
    /\ used' = UsedAfterPut(c, o)
    /\ idle' = IdleAfterPut(c, o)
    /\ health' = HealthAfterPut(c, o)
    /\ UNCHANGED pool_created

----------------------------------------------------------------------------
(* pooled_conn(), lines 59-87 *)

InPooled == call.op \in {"obras", "insert"}

\* line 65: p = get_pool()
PcGetPool ==
    /\ PooledFrame
    /\ InPooled /\ call.ppc = "getpool"
    /\ GetPool("get1", "exited")

\* line 66: conn = p.getconn()   (outside the try: no release on failure)
PcGetConn1 ==
    /\ PooledFrame
    /\ InPooled /\ call.ppc = "get1"
    /\ GetConn("probe1", "exited")

\* variant: the result of the first probe is ignored
MutAfterProbe1Skip(fails) == "body"

\* the pc reached after the first probe failed / passed
AfterProbe1(fails) == IF fails THEN "discard" ELSE "body"

\* line 68: if conn.closed or not _ping(conn)
PcProbe1 ==
    /\ PooledFrame
    /\ InPooled /\ call.ppc = "probe1"
    /\ LET fails == ProbeFails(call.conn) IN
       /\ health' \in HealthAfterPing(call.conn)
       /\ call' = [call EXCEPT !.ppc = AfterProbe1(fails),
                               !.probes = @ + 1,
                               !.passed = IF fails THEN @ ELSE @ \cup {call.conn},
                               !.entered = IF AfterProbe1(fails) = "body"
                                           THEN call.conn ELSE @]
    /\ UNCHANGED <<pool_created, idle, used>>

\* variant: the first connection is put back without close=True
MutDiscardRecycle == FALSE

\* the close flag of the putconn that discards the first connection
DiscardClose == TRUE

\* lines 70-73: p.putconn(conn, close=True), exceptions ignored
PcDiscard ==
    /\ PooledFrame
    /\ InPooled /\ call.ppc = "discard"
    /\ \E o \in PutConnOutcomes(call.conn, DiscardClose) :
          /\ PutConn(call.conn, DiscardClose, o)
          /\ call' = [call EXCEPT !.ppc = "get2",
                         !.puts = Append(@, PutRec(call.conn, DiscardClose, o))]

\* line 74: conn = p.getconn()   (inside the try)
PcGetConn2 ==
    /\ PooledFrame
    /\ InPooled /\ call.ppc = "get2"
    /\ GetConn("probe2", "finally")

\* variant: a failed second probe does not raise
MutAfterProbe2Yield(fails) == "body"

\* variant: a failed second probe discards and borrows again
MutAfterProbe2Retry(fails) == IF fails THEN "discard" ELSE "body"

\* the pc reached after the second probe failed / passed
AfterProbe2(fails) == IF fails THEN "finally" ELSE "body"

\* lines 76-77: second probe, RuntimeError when it fails too
PcProbe2 ==
    /\ PooledFrame
    /\ InPooled /\ call.ppc = "probe2"
    /\ LET fails == ProbeFails(call.conn) IN
       /\ health' \in HealthAfterPing(call.conn)
       /\ call' = [call EXCEPT !.ppc = AfterProbe2(fails),
                               !.probes = @ + 1,
                               !.passed = IF fails THEN @ ELSE @ \cup {call.conn},
                               !.raised = AfterProbe2(fails) = "finally",
                               !.entered = IF AfterProbe2(fails) = "body"
                                           THEN call.conn ELSE @]
    /\ UNCHANGED <<pool_created, idle, used>>

\* the close flag of the first putconn of the finally clause
FinallyClose == FALSE

\* lines 79-81: finally: p.putconn(conn)
PcFinally ==
    /\ PooledFrame
    /\ InPooled /\ call.ppc = "finally"
    /\ \E o \in PutConnOutcomes(call.conn, FinallyClose) :
          /\ PutConn(call.conn, FinallyClose, o)
          /\ call' = [call EXCEPT !.ppc = IF o = "raise" THEN "finally2" ELSE "exited",
                         !.puts = Append(@, PutRec(call.conn, FinallyClose, o))]

\* variant: the except clause of the finally repeats the plain putconn
MutFallbackPlain == FALSE

\* the close flag of the putconn of the except clause of the finally
FallbackClose == TRUE

\* lines 82-87: except: p.putconn(conn, close=True), exceptions ignored
PcFinally2 ==
    /\ PooledFrame
    /\ InPooled /\ call.ppc = "finally2"
    /\ \E o \in PutConnOutcomes(call.conn, FallbackClose) :
          /\ PutConn(call.conn, FallbackClose, o)
          /\ call' = [call EXCEPT !.ppc = "exited",
                         !.puts = Append(@, PutRec(call.conn, FallbackClose, o))]

\* line 78: yield conn -- the caller's block (lines 96-98 of cargar_obras,
\* lines 109-118 of insertar_gasto).  It succeeds only on a live connection;
\* the statement may fail on a live connection too.
PcBody ==
    /\ PooledFrame
    /\ InPooled /\ call.ppc = "body"
    /\ \/ /\ health[call.conn] = "ok"
          /\ call' = [call EXCEPT !.ppc = "finally", !.result = TRUE]
          /\ UNCHANGED poolVars
       \/ /\ health' \in HealthAfterPing(call.conn)
          /\ call' = [call EXCEPT !.ppc = "finally", !.raised = TRUE]
          /\ UNCHANGED <<pool_created, idle, used>>

----------------------------------------------------------------------------
(* test_connection(), lines 124-137 *)

InTest == call.op = "test"

\* line 127: p = get_pool()
TestGetPool ==
    /\ TestFrame
    /\ InTest /\ call.ppc = "getpool"
    /\ GetPool("getconn", "except")
    /\ UNCHANGED <<db_connected, db_error>>

\* line 128: conn = p.getconn()
TestGetConn ==
    /\ TestFrame
    /\ InTest /\ call.ppc = "getconn"
    /\ GetConn("ping", "except")
    /\ UNCHANGED <<db_connected, db_error>>

\* line 129: ok = _ping(conn)
TestPing ==
    /\ TestFrame
    /\ InTest /\ call.ppc = "ping"
    /\ health' \in HealthAfterPing(call.conn)
    /\ call' = [call EXCEPT !.ppc = "put", !.probes = @ + 1,
                            !.passed = IF ping(call.conn)
                                       THEN @ \cup {call.conn} ELSE @,
                            !.result = ping(call.conn)]
    /\ UNCHANGED <<pool_created, idle, used, db_connected, db_error>>

\* variant: a failed ping leaves no message
MutPingErrorNone(okv) == "none"

\* line 132: db_error = None if ok else "Ping a la base fallo."
PingError(okv) == IF okv THEN "none" ELSE "ping"

\* lines 130-133: p.putconn(conn); db_connected = ok; db_error; return ok
TestPut ==
    /\ TestFrame
    /\ InTest /\ call.ppc = "put"
    /\ \E o \in PutConnOutcomes(call.conn, FALSE) :
          /\ PutConn(call.conn, FALSE, o)
          /\ IF o = "raise"
             THEN /\ call' = [call EXCEPT !.ppc = "except", !.raised = TRUE,
                                 !.puts = Append(@, PutRec(call.conn, FALSE, o))]
                  /\ UNCHANGED <<db_connected, db_error>>
             ELSE /\ call' = [call EXCEPT !.ppc = "done",
                                 !.puts = Append(@, PutRec(call.conn, FALSE, o))]
                  /\ db_connected' = call.result
                  /\ db_error' = PingError(call.result)

\* lines 134-137: except: db_connected = False; db_error; return False
TestExcept ==
    /\ TestFrame
    /\ InTest /\ call.ppc = "except"
    /\ db_connected' = FALSE
    /\ db_error' = "connect"
    /\ call' = [call EXCEPT !.ppc = "done", !.result = FALSE]
    /\ UNCHANGED poolVars

\* The server (or the network) drops a connection at any moment.
EnvKill ==
    /\ \E c \in idle \cup used :
          /\ health[c] = "ok"
          /\ health' = [health EXCEPT ![c] = "dead"]
    /\ UNCHANGED <<pool_created, idle, used, call>>
    /\ UNCHANGED <<DATABASE_URL, hasDialog, sessVars, cache, runVars,
                   insArgs, insCalls>>

----------------------------------------------------------------------------
(* Form values *)

\* the texts a user may type: nothing, a blank, a word, a word with a
\* blank before or after it
Strs == {<<>>, <<" ">>, <<"a">>, <<" ", "a">>, <<"a", " ">>}

RECURSIVE LStrip(_)
LStrip(s) == IF s = <<>> THEN s
             ELSE IF Head(s) = " " THEN LStrip(Tail(s)) ELSE s
RECURSIVE RStrip(_)
RStrip(s) == IF s = <<>> THEN s
             ELSE IF s[Len(s)] = " " THEN RStrip(SubSeq(s, 1, Len(s) - 1)) ELSE s
\* (x or "").strip()
strip(s) == RStrip(LStrip(s))

\* Decimal(str(monto_float)).quantize(Decimal("0.01")): an amount typed in
\* half cents, rounded to whole cents, ties to the even cent (ROUND_HALF_EVEN)
Quantize(h) ==
    LET q == h \div 2 IN
    IF h % 2 = 0 THEN q ELSE IF q % 2 = 0 THEN q ELSE q + 1

\* "-- Seleccionar --", first option of both select boxes
Placeholder == "seleccionar"
\* rows of the table obras
ObrasDB == {"A"}
Fechas == {1}
Montos == 0..MaxMonto
Proveedores == {<<" ", "v">>}
Personas == {<<"p">>}
Metodos == {"Efectivo"}

\* the values the widgets of the form return (lines 212-229)
FormValues ==
    [fecha : Fechas, concepto : Strs, monto : Montos, proveedor : Proveedores,
     persona : Personas, metodo_pago : Metodos, comprobante_numero : Strs,
     obra_nombre : {Placeholder} \cup lista_obras]

NoForm == [fecha |-> 0, concepto |-> <<>>, monto |-> 0, proveedor |-> <<>>,
           persona |-> <<>>, metodo_pago |-> Placeholder,
           comprobante_numero |-> <<>>, obra_nombre |-> Placeholder]

\* st.session_state.datos_gasto = {}
Empty == [lleno |-> FALSE, fecha |-> 0, concepto |-> <<>>, monto |-> 0,
          persona |-> <<>>, comprobante_numero |-> <<>>,
          obra_nombre |-> Placeholder, proveedor |-> <<>>,
          metodo_pago |-> Placeholder]

\* variant: only negative amounts are refused
MutMontoNegativo(m) == m < 0

\* variant: the concept is not looked at
MutConceptoNunca(c) == FALSE

\* lines 246, 250, 254, 258, 262: the five checks of the submit validation
MontoInvalido(m) == m <= 0
ObraInvalida(o) == o = Placeholder
ComprobanteInvalido(c) == c = <<>>
ConceptoInvalido(c) == c = <<>>
SinConexion == ~db_connected

\* variant: the checks are chained with elif, only the first failure shows
MutErroresFirst(f) ==
    IF MontoInvalido(Quantize(f.monto)) THEN {"monto"}
    ELSE IF ObraInvalida(f.obra_nombre) THEN {"obra"}
    ELSE IF ComprobanteInvalido(strip(f.comprobante_numero)) THEN {"comprobante"}
    ELSE IF ConceptoInvalido(strip(f.concepto)) THEN {"concepto"}
    ELSE IF SinConexion THEN {"conexion"}
    ELSE {}

\* lines 232-264: the st.error messages of a submission
Errores(f) ==
    (IF MontoInvalido(Quantize(f.monto)) THEN {"monto"} ELSE {})
    \cup (IF ObraInvalida(f.obra_nombre) THEN {"obra"} ELSE {})
    \cup (IF ComprobanteInvalido(strip(f.comprobante_numero))
          THEN {"comprobante"} ELSE {})
    \cup (IF ConceptoInvalido(strip(f.concepto)) THEN {"concepto"} ELSE {})
    \cup (IF SinConexion THEN {"conexion"} ELSE {})

\* lines 267-276: the dictionary stored in datos_gasto
Datos(f) ==
    [lleno |-> TRUE, fecha |-> f.fecha, concepto |-> strip(f.concepto),
     monto |-> Quantize(f.monto), persona |-> strip(f.persona),
     comprobante_numero |-> strip(f.comprobante_numero),
     obra_nombre |-> f.obra_nombre, proveedor |-> strip(f.proveedor),
     metodo_pago |-> f.metodo_pago]

\* lines 304-313 / 359-368: the arguments of the call, by position
CallArgs(d) ==
    <<d.fecha, d.concepto, d.monto, d.comprobante_numero, d.obra_nombre,
      d.proveedor, d.persona, d.metodo_pago>>

\* lines 104-105: the parameters of insertar_gasto, in order
Params ==
    <<"fecha", "concepto", "monto_decimal", "comprobante_numero",
      "obra_nombre", "proveedor", "persona", "metodo_pago">>

\* the tuple t as a function of the names ns of its positions
Named(ns, t) ==
    [n \in {ns[i] : i \in 1..Len(ns)} |->
        t[CHOOSE i \in 1..Len(ns) : ns[i] = n]]

\* line 112: the columns named by the INSERT, in order
Columns ==
    <<"fecha", "concepto", "monto", "comprobante", "obra", "persona",
      "proveedor", "metodo_pago">>

\* variant: person and provider are passed in the order of the signature
MutValuesSignature(p) ==
    <<p.fecha, p.concepto, p.monto_decimal, strip(p.comprobante_numero),
      p.obra_nombre, p.proveedor, p.persona, p.metodo_pago>>

\* lines 108 and 115: the values passed to the INSERT, in order
Values(p) ==
    <<p.fecha, p.concepto, p.monto_decimal, strip(p.comprobante_numero),
      p.obra_nombre, p.persona, p.proveedor, p.metodo_pago>>

\* lines 304-313 / 359-368 with lines 104-116: the row insertar_gasto writes
Args(d) == Named(Columns, Values(Named(Params, CallArgs(d))))

NoArgs == Args(Empty)

----------------------------------------------------------------------------
(* The script, top to bottom.  A step leaves alone what it does not name.  *)

Config == <<DATABASE_URL, hasDialog>>

\* st.rerun(), or a user event: the script starts again from the top
Restart(e) ==
    /\ pc' = "check1"
    /\ ev' = e
    /\ form' = NoForm
    /\ errores' = {}
    /\ lista_obras' = {}

\* the script reaches its last line: the browser waits for the next click
Finish ==
    /\ pc' = "idle"
    /\ ev' = "none"
    /\ errores' = {}
    /\ lista_obras' = {}

\* the script calls a storage function and waits at pc w for its result
Invoke(o, w) ==
    /\ call' = NewCall(o)
    /\ pc' = w

\* The storage function has returned to the script: no connection object is
\* referenced any more.  A connection that was not put back stays in
\* pool._used for ever and is not followed further; the idle connection, if
\* any, is named 1.
Settle ==
    /\ call' = NoCall
    /\ used' = {}
    /\ idle' = IF idle = {} THEN {} ELSE {1}
    /\ health' = [c \in ConnIds |->
                     IF c = 1 /\ idle # {} THEN health[CHOOSE d \in idle : TRUE]
                     ELSE "none"]
    /\ UNCHANGED pool_created

\* lines 159-161: if not db_checked_once: test_connection()
Check1 ==
    /\ pc = "check1"
    /\ IF db_checked_once
       THEN pc' = "check2" /\ UNCHANGED call
       ELSE Invoke("test", "check1_t")
    /\ UNCHANGED <<Config, poolVars, sessVars, cache, ev, form, errores, ok,
                   confirmShown, lista_obras, insArgs, insCalls>>

Check1Ret ==
    /\ pc = "check1_t" /\ call.ppc = "done"
    /\ db_checked_once' = TRUE
    /\ pc' = "check2"
    /\ Settle
    /\ UNCHANGED <<Config, db_connected, db_error, enviando,
                   datos_gasto, mostrar_confirmacion, flash_ok, cache, ev, form,
                   errores, ok, confirmShown, lista_obras, insArgs, insCalls>>

\* variant: the connection is only tested once per session
MutNeverRetest == FALSE

\* line 164: if not st.session_state.db_connected
NoConectado == ~db_connected

\* lines 164-165: if not db_connected: test_connection()
Check2 ==
    /\ pc = "check2"
    /\ IF NoConectado
       THEN Invoke("test", "check2_t")
       ELSE pc' = "retry" /\ UNCHANGED call
    /\ UNCHANGED <<Config, poolVars, sessVars, cache, ev, form, errores, ok,
                   confirmShown, lista_obras, insArgs, insCalls>>

Check2Ret ==
    /\ pc = "check2_t" /\ call.ppc = "done"
    /\ pc' = "retry"
    /\ Settle
    /\ UNCHANGED <<Config, sessVars, cache, ev, form, errores,
                   ok, confirmShown, lista_obras, insArgs, insCalls>>

\* lines 175-177: the sidebar button "Reintentar conexion"
Retry ==
    /\ pc = "retry"
    /\ IF ev = "retry"
       THEN Invoke("test", "retry_t")
       ELSE pc' = "obras" /\ UNCHANGED call
    /\ UNCHANGED <<Config, poolVars, sessVars, cache, ev, form, errores, ok,
                   confirmShown, lista_obras, insArgs, insCalls>>

\* line 178: st.rerun()
RetryRet ==
    /\ pc = "retry_t" /\ call.ppc = "done"
    /\ Restart("none")
    /\ Settle
    /\ UNCHANGED <<Config, sessVars, cache, ok, confirmShown,
                   insArgs, insCalls>>

\* the seconds that may have passed since the entry was last looked at
Elapsed == {k * TickSeconds : k \in 0..2}

\* the age of the entry d seconds later; an age beyond the ttl is not told
\* from the ttl
AgeAfter(d) == IF cache.age + d >= Ttl THEN Ttl ELSE cache.age + d

\* variant: an entry is served whatever its age
MutNeverExpired(a) == FALSE

\* st.cache_data(ttl=60): an entry of age a is no longer served
Expired(a) == a >= Ttl

\* line 195 with line 92: lista_obras = cargar_obras(), cached for 60 s.
\* The entry is used if there is one and it is younger than the ttl.  The
\* age of the entry is only looked at here, so the clock is advanced here.
Obras ==
    /\ pc = "obras"
    /\ \E d \in Elapsed :
          LET a == IF cache.valid THEN AgeAfter(d) ELSE cache.age IN
          /\ cache' = [cache EXCEPT !.age = a]
          /\ IF cache.valid /\ ~Expired(a)
             THEN /\ lista_obras' = cache.val
                  /\ pc' = "form"
                  /\ UNCHANGED call
             ELSE /\ Invoke("obras", "obras_q")
                  /\ UNCHANGED lista_obras
    /\ UNCHANGED <<Config, poolVars, sessVars, ev, form, errores, ok,
                   confirmShown, insArgs, insCalls>>

\* lines 98-102: the return value of cargar_obras, stored by st.cache_data
CargarObrasEnd ==
    /\ pc = "obras_q" /\ call.op = "obras" /\ call.ppc = "exited"
    /\ LET val == IF call.raised THEN {} ELSE ObrasDB IN
       /\ cache' = [valid |-> TRUE, val |-> val, age |-> 0]
       /\ lista_obras' = val
    /\ IF call.raised
       THEN db_error' = "obras" /\ db_connected' = FALSE
       ELSE UNCHANGED <<db_error, db_connected>>
    /\ Settle
    /\ pc' = "form"
    /\ UNCHANGED <<Config, db_checked_once, enviando, datos_gasto,
                   mostrar_confirmacion, flash_ok, ev, form, errores, ok,
                   confirmShown, insArgs, insCalls>>

\* lines 203-229: the flash message is shown once; the form widgets return
\* their values
ReadForm ==
    /\ pc = "form"
    /\ flash_ok' = FALSE
    /\ IF ev = "submit"
       THEN /\ form' \in FormValues
            /\ pc' = "validate"
       ELSE /\ form' = form
            /\ pc' = "fallback"
    /\ UNCHANGED <<Config, poolVars, call, db_connected, db_error,
                   db_checked_once, enviando, datos_gasto, mostrar_confirmacion,
                   cache, ev, errores, ok, confirmShown, lista_obras, insArgs,
                   insCalls>>

\* the confirm button as rendered: disabled=st.session_state.get("enviando")
Rendered == IF enviando THEN "disabled" ELSE "enabled"

\* lines 232-326: if submit: validation, datos_gasto, confirmation step
Validate ==
    /\ pc = "validate"
    /\ errores' = Errores(form)
    /\ form' = NoForm
    /\ IF Errores(form) = {}
       THEN /\ datos_gasto' = Datos(form)
            /\ IF hasDialog
               THEN \* confirmar_dialog() opens the overlay; line 331 is skipped
                    /\ confirmShown' = Rendered
                    /\ pc' = "idle"
                    /\ ev' = "none"
                    /\ lista_obras' = {}
                    /\ UNCHANGED mostrar_confirmacion
               ELSE \* lines 325-326: st.rerun()
                    /\ mostrar_confirmacion' = TRUE
                    /\ pc' = "check1"
                    /\ ev' = "none"
                    /\ lista_obras' = {}
                    /\ UNCHANGED confirmShown
       ELSE /\ pc' = "fallback"
            /\ UNCHANGED <<datos_gasto, mostrar_confirmacion, confirmShown, ev,
                           lista_obras>>
    /\ UNCHANGED <<Config, poolVars, call, db_connected, db_error,
                   db_checked_once, enviando, flash_ok, cache, ok, insArgs,
                   insCalls>>

\* variant: the handler does not look at enviando
MutNoGuard == TRUE

\* lines 301 / 356: if not st.session_state.get("enviando", False)
NoEnviando == ~enviando

\* lines 299-302 / 354-357: a click on the confirm button
ConfirmClick ==
    IF NoEnviando
    THEN /\ enviando' = TRUE
         /\ pc' = "save_spin"
         /\ UNCHANGED <<ev, errores, lista_obras>>
    ELSE /\ Finish
         /\ UNCHANGED enviando

\* lines 331-376: the confirmation screen without st.dialog
Fallback ==
    /\ pc = "fallback"
    /\ IF mostrar_confirmacion /\ ~hasDialog
       THEN IF ~datos_gasto.lleno
            THEN \* datos['fecha'] raises KeyError: the run ends
                 /\ Finish
                 /\ confirmShown' = "no"
                 /\ UNCHANGED <<mostrar_confirmacion, enviando, form>>
            ELSE /\ confirmShown' = Rendered
                 /\ IF ev = "cancel"
                    THEN /\ mostrar_confirmacion' = FALSE
                         /\ Restart("none")
                         /\ UNCHANGED enviando
                    ELSE /\ IF ev = "confirm"
                            THEN ConfirmClick
                            ELSE Finish /\ UNCHANGED enviando
                         /\ UNCHANGED <<mostrar_confirmacion, form>>
       ELSE /\ Finish
            /\ confirmShown' = "no"
            /\ UNCHANGED <<mostrar_confirmacion, enviando, form>>
    /\ UNCHANGED <<Config, poolVars, call, db_connected, db_error,
                   db_checked_once, datos_gasto, flash_ok, cache, ok,
                   insArgs, insCalls>>

\* lines 280-320: confirmar_dialog() run again for a click inside the overlay
Dialog ==
    /\ pc = "dialog"
    /\ IF ~datos_gasto.lleno
       THEN \* line 283: datos['fecha'] raises KeyError, no button is drawn
            /\ Finish
            /\ confirmShown' = "no"
            /\ UNCHANGED <<datos_gasto, enviando, form>>
       ELSE /\ confirmShown' = Rendered
            /\ IF ev = "cancel"
               THEN /\ datos_gasto' = Empty
                    /\ Restart("none")
                    /\ UNCHANGED enviando
               ELSE /\ ConfirmClick
                    /\ UNCHANGED <<datos_gasto, form>>
    /\ UNCHANGED <<Config, poolVars, call, db_connected, db_error,
                   db_checked_once, mostrar_confirmacion, flash_ok, cache, ok,
                   insArgs, insCalls>>

\* lines 303-313 / 358-368: with st.spinner(...): ok = insertar_gasto(...)
SaveSpin ==
    /\ pc = "save_spin"
    /\ Invoke("insert", "saving")
    /\ insArgs' = Args(datos_gasto)
    /\ insCalls' = insCalls + 1
    /\ UNCHANGED <<Config, poolVars, sessVars, cache, ev, form, errores, ok,
                   confirmShown, lista_obras>>

\* lines 118-122: the return value of insertar_gasto
InsertarGastoEnd ==
    /\ pc = "saving" /\ call.op = "insert" /\ call.ppc = "exited"
    /\ ok' = ~call.raised
    /\ IF call.raised
       THEN db_error' = "insert" /\ db_connected' = FALSE
       ELSE UNCHANGED <<db_error, db_connected>>
    /\ Settle
    /\ pc' = "save_done"
    /\ insArgs' = NoArgs
    /\ UNCHANGED <<Config, db_checked_once, enviando, datos_gasto,
                   mostrar_confirmacion, flash_ok, cache, ev, form, errores,
                   confirmShown, lista_obras, insCalls>>

\* variant: the fallback screen stays up after a successful save
MutMostrarKept == mostrar_confirmacion

\* line 372: mostrar_confirmacion = False (the dialog of lines 316-319 does
\* not assign it)
MostrarAfterSave == IF hasDialog THEN mostrar_confirmacion ELSE FALSE

\* lines 314-320 / 369-376: enviando = False, then success or error
SaveEnd ==
    /\ pc = "save_done"
    /\ enviando' = FALSE
    /\ insCalls' = 0
    /\ ok' = FALSE
    /\ IF ok
       THEN /\ flash_ok' = TRUE
            /\ mostrar_confirmacion' = MostrarAfterSave
            /\ datos_gasto' = Empty
            /\ Restart("none")
       ELSE /\ Finish
            /\ UNCHANGED <<flash_ok, mostrar_confirmacion, datos_gasto, form>>
    /\ UNCHANGED <<Config, poolVars, call, db_connected, db_error,
                   db_checked_once, cache, confirmShown, insArgs>>

\* the positions where the script calls a Streamlit element, where a pending
\* user event stops the run and starts the next one
YieldPcs == {"retry", "form", "fallback", "dialog", "save_spin", "save_done"}

Events == {"submit", "retry", "confirm", "cancel"}

\* the widgets the browser shows and lets the user click
Clickable(e) ==
    \/ e \in {"submit", "retry"}
    \/ e = "confirm" /\ confirmShown = "enabled"
    \/ e = "cancel" /\ confirmShown # "no"

\* a click: a finished run is followed by a new one, a running one is
\* stopped at its next element.  A click inside st.dialog runs only
\* confirmar_dialog again.
UserEvent ==
    /\ pc \in {"idle"} \cup YieldPcs
    /\ \E e \in Events :
          /\ Clickable(e)
          /\ IF hasDialog /\ e \in {"confirm", "cancel"}
             THEN /\ pc' = "dialog" /\ ev' = e /\ form' = NoForm
                  /\ errores' = {} /\ lista_obras' = {}
             ELSE Restart(e)
    /\ UNCHANGED <<Config, poolVars, call, sessVars, cache, ok, confirmShown,
                   insArgs, insCalls>>

----------------------------------------------------------------------------
\* lines 142-156: a new session, about to run the script for the first time
Init ==
    /\ DATABASE_URL \in BOOLEAN
    /\ hasDialog \in BOOLEAN
    /\ pool_created = FALSE
    /\ idle = {}
    /\ used = {}
    /\ health = [c \in ConnIds |-> "none"]
    /\ call = NoCall
    /\ db_connected = FALSE
    /\ db_error = "none"
    /\ db_checked_once = FALSE
    /\ enviando = FALSE
    /\ datos_gasto = Empty
    /\ mostrar_confirmacion = FALSE
    /\ flash_ok = FALSE
    /\ cache = [valid |-> FALSE, val |-> {}, age |-> 0]
    /\ lista_obras = {}
    /\ pc = "check1"
    /\ ev = "none"
    /\ form = NoForm
    /\ errores = {}
    /\ ok = FALSE
    /\ confirmShown = "no"
    /\ insArgs = NoArgs
    /\ insCalls = 0

Next ==
    \/ PcGetPool \/ PcGetConn1 \/ PcProbe1 \/ PcDiscard \/ PcGetConn2
    \/ PcProbe2 \/ PcBody \/ PcFinally \/ PcFinally2
    \/ TestGetPool \/ TestGetConn \/ TestPing \/ TestPut \/ TestExcept
    \/ EnvKill
    \/ Check1 \/ Check1Ret \/ Check2 \/ Check2Ret \/ Retry \/ RetryRet
    \/ Obras \/ CargarObrasEnd \/ ReadForm \/ Validate \/ Fallback \/ Dialog
    \/ SaveSpin \/ InsertarGastoEnd \/ SaveEnd \/ UserEvent

Spec == Init /\ [][Next]_vars

TypeOK ==
    /\ pc \in {"idle", "check1", "check1_t", "check2", "check2_t", "retry",
               "retry_t", "obras", "obras_q", "form", "validate", "fallback",
               "dialog", "save_spin", "saving", "save_done"}
    /\ idle \subseteq ConnIds /\ used \subseteq ConnIds /\ idle \cap used = {}
    /\ insCalls \in 0..1

----------------------------------------------------------------------------
(* Properties of pooled_conn *)

Exited == InPooled /\ call.ppc = "exited"

\* the first probe of the call failed
Probe1Failed == call.probes >= 1 /\ call.first \notin call.passed

\* the putconn calls of the call that took connection c back
Returned(c) ==
    {i \in 1..Len(call.puts) : call.puts[i].c = c /\ call.puts[i].out # "raise"}

\* C1: when pooled_conn exits, on any path, no connection it borrowed is
\* still lent out.
C1_NoLeak == Exited => call.borrowed \cap used = {}

\* C1 witness: the caller's block raised, the plain putconn of the finally
\* raised too, and the call has exited.
C1_Witness ==
    /\ Exited /\ call.raised /\ call.entered # NoConn
    /\ Len(call.puts) = 2 /\ call.puts[1].out = "raise"

\* C2: when the first connection fails the probe and the second passes, the
\* second one is yielded, and the first was put back with close=True and is
\* not in the pool.
C2_SecondYielded ==
    (InPooled /\ call.probes = 2 /\ Probe1Failed /\ call.conn \in call.passed)
    => /\ call.entered = call.conn
       /\ call.conn # call.first
       /\ Len(call.puts) >= 1
       /\ call.puts[1] = PutRec(call.first, TRUE, "close")
       /\ call.first \notin idle \cup used

\* C2 witness: the caller's block is running on the second connection.
C2_Witness ==
    /\ InPooled /\ call.ppc = "body" /\ call.probes = 2
    /\ Probe1Failed /\ call.conn \in call.passed

\* C3: when both probes fail, the call raises and the caller's block is
\* never entered.
C3_BothFail ==
    (InPooled /\ call.probes = 2 /\ call.passed = {})
    => /\ call.entered = NoConn
       /\ call.raised
       /\ call.ppc \in {"finally", "finally2", "exited"}

\* C3 witness: the call has exited after two failed probes.
C3_Witness == Exited /\ call.probes = 2 /\ call.passed = {}

\* C4: a second connection is asked for iff the first probe failed, and there
\* is never a third getconn or a third probe.
C4_RetryOnce ==
    InPooled =>
       /\ call.gets <= 2 /\ call.probes <= 2
       /\ call.gets = 2 => Probe1Failed
       /\ (Probe1Failed /\ call.ppc \in {"probe2", "body", "finally",
                                         "finally2", "exited"})
          => call.gets = 2

\* C4 witness: a call that borrowed twice and probed twice has exited.
C4_Witness == Exited /\ call.gets = 2 /\ call.probes = 2

\* C5: the connection the caller's block runs on passed the probe in this
\* call, and a failed first probe alone raises nothing.
C5_Verified ==
    /\ (InPooled /\ call.entered # NoConn) => call.entered \in call.passed
    /\ (InPooled /\ call.ppc = "body")
       => ~call.raised /\ call.entered = call.conn /\ health[call.conn] # "none"

\* C5 witness: the request succeeded although the first connection was dead.
C5_Witness ==
    /\ Exited /\ Probe1Failed /\ call.result /\ ~call.raised
    /\ call.entered \in call.passed

\* C6: a connection that failed the second probe, or whose caller's block
\* raised, is taken back by a putconn with close=True.
C6_CloseOnRelease ==
    (Exited /\ call.raised /\ call.conn \in call.borrowed
       /\ (call.entered # NoConn \/ (call.probes = 2 /\ call.passed = {})))
    => \A i \in Returned(call.conn) : call.puts[i].close

----------------------------------------------------------------------------
(* Properties of the form *)

\* the step taken is the validation of the submitted form
ValidateStep == pc = "validate" /\ pc' # "validate"

\* the submission is rejected: nothing is stored, no confirmation step
Rejected ==
    /\ pc' = "fallback"
    /\ datos_gasto' = datos_gasto
    /\ mostrar_confirmacion' = mostrar_confirmacion
    /\ confirmShown' = confirmShown

\* C7: a submission whose amount (rounded to cents) is <= 0 is rejected with
\* the amount message, and insertar_gasto never runs with an amount <= 0.
C7_MontoPositivo ==
    /\ [](call.op = "insert" => insArgs.monto > 0)
    /\ [][(ValidateStep /\ Quantize(form.monto) <= 0)
             => (Rejected /\ "monto" \in errores')]_vars

\* C7 witness: a submission was refused for its amount alone.
C7_Witness == pc = "fallback" /\ ev = "submit" /\ errores = {"monto"}

\* the messages the three required fields of form f call for
FieldMessages(f) ==
    {m \in {"comprobante", "concepto", "obra"} :
        \/ m = "comprobante" /\ strip(f.comprobante_numero) = <<>>
        \/ m = "concepto" /\ strip(f.concepto) = <<>>
        \/ m = "obra" /\ f.obra_nombre = Placeholder}

\* C8: a submission with a blank voucher number, a blank concept or no
\* project is rejected, and the messages shown for these three fields are
\* exactly those of the failing ones.
C8_CamposObligatorios ==
    [][ValidateStep =>
          /\ errores' \cap {"comprobante", "concepto", "obra"} = FieldMessages(form)
          /\ FieldMessages(form) # {} => Rejected]_vars

\* C8 witness: the three fields failed together and all three were reported.
C8_Witness ==
    pc = "fallback" /\ {"comprobante", "concepto", "obra"} \subseteq errores

\* C9: while enviando is set at most one insertar_gasto call is started, and
\* a confirm click that finds enviando set starts none.
C9_UnSoloInsert ==
    /\ [](enviando => insCalls <= 1)
    /\ [][(enviando /\ ev = "confirm" /\ pc \in {"fallback", "dialog"})
             => pc' # "save_spin"]_vars

\* C9 witness: a confirm click is being handled while enviando is set and
\* one insert has already been started.
C9_Witness ==
    /\ enviando /\ ev = "confirm" /\ insCalls = 1
    /\ \/ pc = "dialog"
       \/ pc = "fallback" /\ mostrar_confirmacion /\ ~hasDialog /\ datos_gasto.lleno

\* C10: insertar_gasto is never called while db_connected is False.
C10_NoInsertDisconnected == call.op = "insert" => db_connected

----------------------------------------------------------------------------
(* Properties of the storage functions *)

\* test_connection has returned
TestDone == InTest /\ call.ppc = "done"

\* C11: when cargar_obras, insertar_gasto or test_connection fails, it ends
\* with db_connected = False and a message in db_error, and the failure is
\* returned as a value ([] or False) to the script, which goes on.
C11_ErrorFlipsFlag ==
    /\ []((TestDone /\ ~call.result) => (~db_connected /\ db_error # "none"))
    /\ [][(pc = "obras_q" /\ pc' # pc /\ call.raised)
             => /\ ~db_connected' /\ db_error' # "none"
                /\ lista_obras' = {} /\ pc' = "form"]_vars
    /\ [][(pc = "saving" /\ pc' # pc /\ call.raised)
             => /\ ~db_connected' /\ db_error' # "none"
                /\ ~ok' /\ pc' = "save_done"]_vars

\* C11 witness: test_connection, called by the automatic check of line 165,
\* has returned False because the ping failed.
C11_Witness ==
    /\ TestDone /\ ~call.result /\ call.probes = 1 /\ ~call.raised
    /\ db_error = "ping" /\ pc = "check2_t"

\* C12: without DATABASE_URL no storage function borrows a connection and
\* each of them fails, db_connected is False in every state, and no
\* submission reaches the confirmation step or insertar_gasto.
C12_SinDatabaseUrl ==
    ~DATABASE_URL =>
       /\ ~db_connected
       /\ ~pool_created /\ idle = {} /\ used = {}
       /\ call.gets = 0 /\ call.borrowed = {}
       /\ TestDone => ~call.result
       /\ Exited => call.raised /\ call.entered = NoConn
       /\ call.op # "insert" /\ pc \notin {"save_spin", "saving", "save_done"}
       /\ ~datos_gasto.lleno /\ ~mostrar_confirmacion /\ confirmShown = "no"

\* C12 witness: without DATABASE_URL a form with amount, voucher and concept
\* was submitted and refused for lack of connection (and of a project: the
\* list of projects is empty).
C12_Witness ==
    /\ ~DATABASE_URL /\ pc = "fallback" /\ ev = "submit"
    /\ errores = {"obra", "conexion"} /\ cache.valid /\ cache.val = {}

\* the step taken is the call lista_obras = cargar_obras() of line 195
ObrasStep == pc = "obras" /\ pc' # pc

\* C13: a call of cargar_obras that finds an entry stored less than 60
\* seconds ago returns it and runs no query; one that finds an entry of 60
\* seconds or more (or none) runs the query, whose result is stored with
\* age 0.
C13_CacheObras ==
    /\ [][(ObrasStep /\ cache.valid /\ cache'.age < 60)
             => /\ lista_obras' = cache.val /\ pc' = "form"
                /\ call' = call /\ used' = used /\ idle' = idle
                /\ cache'.val = cache.val /\ cache'.valid]_vars
    /\ [][(ObrasStep /\ (~cache.valid \/ cache'.age >= 60))
             => call' = NewCall("obras") /\ pc' = "obras_q"]_vars
    /\ [](call.op = "obras" => (~cache.valid \/ cache.age >= 60))
    /\ [][(pc = "obras_q" /\ pc' # pc) => (cache'.valid /\ cache'.age = 0)]_vars

\* C13 witness: the list of this run is the cached one, stored more than 0
\* and less than 60 seconds ago.
C13_Witness ==
    /\ pc = "form" /\ cache.valid /\ cache.age > 0 /\ cache.age < 60
    /\ lista_obras = cache.val /\ cache.val # {}

----------------------------------------------------------------------------
(* Properties of the session state *)

\* the step taken is one of the script, not a new click that stops it
ScriptStep == pc' # pc /\ ev' \notin Events

\* the step taken is the handler of a cancel button ("Cancelar" of the
\* dialog, "Volver y editar" of the fallback screen)
CancelStep ==
    /\ ev = "cancel" /\ ScriptStep /\ datos_gasto.lleno
    /\ \/ pc = "dialog"
       \/ pc = "fallback" /\ mostrar_confirmacion /\ ~hasDialog

\* the step taken is the end of the confirm handler after a successful save
SavedStep == pc = "save_done" /\ ScriptStep /\ ok

\* C14: after a successful save and after a cancel of the confirmation step,
\* datos_gasto is empty and the confirmation step is closed.
C14_DatosCleared ==
    [][(CancelStep \/ SavedStep)
          => /\ datos_gasto' = Empty
             /\ ~mostrar_confirmacion'
             /\ pc' = "check1"]_vars

\* the row that holds each field of the accepted record d in its own column
OwnColumns(d) ==
    [fecha |-> d.fecha, concepto |-> d.concepto, monto |-> d.monto,
     comprobante |-> d.comprobante_numero, obra |-> d.obra_nombre,
     persona |-> d.persona, proveedor |-> d.proveedor,
     metodo_pago |-> d.metodo_pago]

\* the step taken accepts the submitted form
AcceptStep == ValidateStep /\ errores' = {}

\* C15: the row insertar_gasto writes holds each field of the accepted
\* expense in the column of that field, each field being the value typed
\* (text fields without the blanks around them) and the amount being the
\* typed amount rounded to whole cents.
C15_RoundTrip ==
    /\ [](call.op = "insert"
            => datos_gasto.lleno /\ insArgs = OwnColumns(datos_gasto))
    /\ [][AcceptStep =>
            /\ datos_gasto'.fecha = form.fecha
            /\ datos_gasto'.concepto = strip(form.concepto)
            /\ datos_gasto'.comprobante_numero = strip(form.comprobante_numero)
            /\ datos_gasto'.obra_nombre = form.obra_nombre
            /\ datos_gasto'.persona = strip(form.persona)
            /\ datos_gasto'.proveedor = strip(form.proveedor)
            /\ datos_gasto'.metodo_pago = form.metodo_pago
            /\ 2 * datos_gasto'.monto - form.monto \in {-1, 0, 1}]_vars

\* C15 witness: the INSERT and the commit have succeeded for an expense
\* typed as 0.015, written as 0.02, with a provider typed with a blank.
C15_Witness ==
    /\ call.op = "insert" /\ call.ppc = "finally" /\ call.result
    /\ insArgs.monto = 2 /\ insArgs.proveedor = <<"v">>
    /\ insArgs.persona = <<"p">> /\ insArgs.comprobante = <<"a">>

\* C16: whenever mostrar_confirmacion is True, datos_gasto holds a complete
\* record, so the fallback confirmation screen is never drawn from an empty
\* datos_gasto.
C16_ConfirmacionConDatos ==
    mostrar_confirmacion =>
       /\ datos_gasto.lleno
       /\ datos_gasto \in [lleno : {TRUE}, fecha : Fechas, concepto : Strs \ {<<>>},
                           monto : 1..MaxMonto,
                           persona : {strip(x) : x \in Personas},
                           proveedor : {strip(x) : x \in Proveedores},
                           comprobante_numero : Strs \ {<<>>},
                           obra_nombre : ObrasDB, metodo_pago : Metodos]

\* C16 witness: the fallback screen is up, with its record, after a save
\* that failed.
C16_Witness ==
    /\ mostrar_confirmacion /\ datos_gasto.lleno /\ pc = "idle"
    /\ db_error = "insert" /\ confirmShown = "enabled"

\* C17: enviando does not stay set: once the run that handled the confirm
\* click is over and the browser waits for the next click, enviando is
\* False.
C17_EnviandoReset == pc = "idle" => ~enviando

\* the submitted form fails one of the five checks
Invalid(f) ==
    \/ Quantize(f.monto) <= 0
    \/ f.obra_nombre = Placeholder
    \/ strip(f.comprobante_numero) = <<>>
    \/ strip(f.concepto) = <<>>
    \/ ~db_connected

\* C18: a rejected submission leaves datos_gasto and mostrar_confirmacion as
\* they were; datos_gasto is only ever assigned by an accepted submission or
\* emptied; and every insertar_gasto call passes the record datos_gasto
\* holds, whose amount is > 0, whose concept and voucher are not empty and
\* whose project is selected.
C18_RejectedFrame ==
    /\ [][(ValidateStep /\ (Invalid(form) \/ errores' # {}))
             => /\ errores' # {}
                /\ datos_gasto' = datos_gasto
                /\ mostrar_confirmacion' = mostrar_confirmacion]_vars
    /\ [][datos_gasto' # datos_gasto
             => (datos_gasto' = Empty \/ (AcceptStep /\ ~Invalid(form)))]_vars
    /\ [](call.op = "insert"
            => /\ insArgs = OwnColumns(datos_gasto)
               /\ insArgs.monto > 0 /\ insArgs.concepto # <<>>
               /\ insArgs.comprobante # <<>> /\ insArgs.obra # Placeholder)

\* C18 witness: a submission was rejected while datos_gasto held the record
\* of an earlier accepted one.
C18_Witness ==
    /\ pc = "fallback" /\ ev = "submit" /\ errores # {}
    /\ datos_gasto.lleno /\ mostrar_confirmacion

PingOk == call.conn \in call.passed

\* C20: test_connection borrows one connection and has handed it back when
\* it returns, whether the ping succeeded or failed; db_connected and the
\* value returned are the result of the ping; a connection whose ping failed
\* is handed back without close=True.
C20_TestConnection ==
    TestDone =>
       /\ call.gets <= 1 /\ Cardinality(call.borrowed) <= 1
       /\ call.probes = 1 =>
             /\ call.conn \notin used
             /\ Returned(call.conn) # {}
             /\ db_connected = PingOk
             /\ call.result = PingOk
             /\ ~PingOk => \A i \in 1..Len(call.puts) : ~call.puts[i].close

====
